---- MODULE Spec2Model ----
(***************************************************************************)
(* Session store (AuthProvider), HTTP client with refresh interceptor and  *)
(* identity normalisation of the Procure-to-Pay browser client.            *)
(*                                                                         *)
(* JavaScript values are encoded as strings: "undefined", "null", "true",  *)
(* "false", "" and ordinary strings.  An object is a record over a fixed   *)
(* field set whose absent fields read "undefined" (as a property read of a *)
(* missing key does).  An optional value (a localStorage key, a nullable   *)
(* React state) is a sequence of length 0 (absent / null) or 1.            *)
(* One step of the model is one event-loop task together with the promise  *)
(* continuations (microtasks) it triggers: no other task runs in between.  *)
(***************************************************************************)
EXTENDS Integers, Sequences, FiniteSets, TLC

\* ---------------------------------------------------------------- bounds
MaxReqs == 2      \* requests in flight through the api client at a time
MaxTok == 2       \* distinct access-token values the server hands out
MaxCalls == 3     \* approve/reject calls made from one open modal

\* ---------------------------------------------------------------- values
Absent == <<>>
Some(v) == <<v>>
Present(m) == m # <<>>

UserIds == {"1"}
Roles == {"staff", "admin"}
AccessTokens == 1..MaxTok
RefreshTokens == {1}
Statuses == {"200", "401", "500", "network"}

Truthy(v) == v \notin {"undefined", "null", "false", ""}

RoleDisplay(role) ==
  CASE role = "admin" -> "Administrator"
    [] role = "staff" -> "Staff"
    [] OTHER -> role

Obj(id, role, roleDisplay, su, profile, profileRole) ==
  [id |-> id, username |-> "user" \o id, email |-> id \o "@example.com",
   role |-> role, role_display |-> roleDisplay, is_superuser |-> su,
   profile |-> profile, profile_role |-> profileRole,
   profile_role_display |-> IF Truthy(profileRole) THEN RoleDisplay(profileRole)
                            ELSE profileRole]

\* Identity as the token endpoint returns it inside { access, refresh, user }.
LoginIdentities ==
  { Obj(id, role, RoleDisplay(role), su, "undefined", "undefined") :
      id \in UserIds, role \in Roles, su \in {"true", "false"} }

\* Raw who-am-I payloads: role present or absent, with or without a profile.
MePayloads ==
  { Obj(id, role, IF Truthy(role) THEN RoleDisplay(role) ELSE "undefined", su, "undefined", "undefined") :
      id \in UserIds, role \in {"undefined"} \cup Roles,
      su \in {"true", "false"} }
  \cup
  { Obj(id, "undefined", "undefined", su, "object", prole) :
      id \in UserIds, su \in {"undefined", "true"},
      prole \in {"null", "staff"} }


\* ------------------------------------------------- AuthContext.js helpers
\* userData.role === 'admin' || userData.is_superuser || false
SuperuserFlag(userData) ==
  IF userData.role = "admin" THEN "true"
  ELSE IF Truthy(userData.is_superuser) THEN userData.is_superuser
  ELSE "false"

\* The six-field object literal the normaliser builds for a raw payload.
Identity6(userData, role, roleDisplay, su) ==
  [id |-> userData.id, username |-> userData.username, email |-> userData.email,
   role |-> role, role_display |-> roleDisplay, is_superuser |-> su,
   profile |-> "undefined", profile_role |-> "undefined",
   profile_role_display |-> "undefined"]

\* value || null
OrNull(v) == IF Truthy(v) THEN v ELSE "null"

\* Variant: a superuser payload takes its role from the profile.
normalizeUserData_ProfileFirst(userData) ==
  IF userData.role # "undefined"
    THEN [userData EXCEPT !.is_superuser = SuperuserFlag(userData)]
  ELSE IF Truthy(userData.profile)
    THEN Identity6(userData, OrNull(userData.profile_role),
                   OrNull(userData.profile_role_display),
                   IF Truthy(userData.is_superuser) THEN "true" ELSE "false")
  ELSE IF Truthy(userData.is_superuser)
    THEN Identity6(userData, "admin", "Administrator", "true")
  ELSE Identity6(userData, "null", "null", "false")

\* Variant: the fallback without a profile is the staff role.
normalizeUserData_StaffFallback(userData) ==
  IF userData.role # "undefined"
    THEN [userData EXCEPT !.is_superuser = SuperuserFlag(userData)]
  ELSE IF Truthy(userData.is_superuser)
    THEN Identity6(userData, "admin", "Administrator", "true")
  ELSE IF Truthy(userData.profile)
    THEN Identity6(userData, OrNull(userData.profile_role),
                   OrNull(userData.profile_role_display), "false")
  ELSE Identity6(userData, "staff", "Staff", "false")

normalizeUserData(userData) ==
  IF userData.role # "undefined"
    THEN [userData EXCEPT !.is_superuser = SuperuserFlag(userData)]
  ELSE IF Truthy(userData.is_superuser)
    THEN Identity6(userData, "admin", "Administrator", "true")
  ELSE IF Truthy(userData.profile)
    THEN Identity6(userData, OrNull(userData.profile_role),
                   OrNull(userData.profile_role_display), "false")
  ELSE Identity6(userData, "null", "null", "false")

\* JSON.stringify of an object: keys whose value is undefined are not written.
JSONstringify(o) ==
  [k \in {f \in DOMAIN o : o[f] # "undefined"} |-> o[k]]

EmptyStorage == [access_token |-> Absent, refresh_token |-> Absent, user |-> Absent]

\* Variant: the refresh token is left behind.
InitAuthClear_KeepRefresh(st) ==
  [st EXCEPT !.access_token = Absent, !.user = Absent]

\* initAuth, catch branch: the three removeItem calls.
InitAuthClear(st) ==
  [st EXCEPT !.access_token = Absent, !.refresh_token = Absent, !.user = Absent]

\* Variant: the refresh token survives logout.
LogoutClear_KeepRefresh(st) ==
  [st EXCEPT !.access_token = Absent, !.user = Absent]

\* logout: the three removeItem calls.
LogoutClear(st) ==
  [st EXCEPT !.access_token = Absent, !.refresh_token = Absent, !.user = Absent]

\* login: the three setItem calls.
LoginStore(st, access, refresh, userData) ==
  [st EXCEPT !.access_token = Some(access), !.refresh_token = Some(refresh),
             !.user = Some(JSONstringify(userData))]

\* initAuth, success branch: localStorage.setItem('user', JSON.stringify(normalizedUser)).
RestoreStore(st, normalizedUser) ==
  [st EXCEPT !.user = Some(JSONstringify(normalizedUser))]

\* Variant: the persisted user key is not rewritten.
UpdateStore_Stale(st, userData) == st

\* updateUser: localStorage.setItem('user', JSON.stringify(userData)).
UpdateStore(st, userData) ==
  [st EXCEPT !.user = Some(JSONstringify(userData))]

\* ------------------------------------------------------ api.js helpers
\* Variant: the _retry flag is not consulted.
ShouldRefresh_NoFlag(status, retry) == status = "401"

\* Variant: a 401 never starts a refresh.
ShouldRefresh_Never(status, retry) == FALSE

\* Variant: every failed response starts a refresh.
ShouldRefresh_AnyError(status, retry) == status # "200" /\ ~retry

\* error.response?.status === 401 && !originalRequest._retry
ShouldRefresh(status, retry) == status = "401" /\ ~retry

\* Variant: the user key is left behind.
NoRefreshTeardown_KeepUser(st) ==
  [st EXCEPT !.access_token = Absent, !.refresh_token = Absent]

\* Interceptor without a refresh token: the three removeItem calls.
NoRefreshTeardown(st) ==
  [st EXCEPT !.access_token = Absent, !.refresh_token = Absent, !.user = Absent]

\* Variant: the user key is left behind.
InterceptorTeardown_KeepUser(st) ==
  [st EXCEPT !.access_token = Absent, !.refresh_token = Absent]

\* Interceptor, catch (refreshError): the three removeItem calls.
InterceptorTeardown(st) ==
  [st EXCEPT !.access_token = Absent, !.refresh_token = Absent, !.user = Absent]

\* Variant: the new access token is not written.
RefreshStore_Skip(st, access) == st

\* Refresh success: localStorage.setItem('access_token', access).
RefreshStore(st, access) == [st EXCEPT !.access_token = Some(access)]

\* Request interceptor: the Authorization header after the interceptor ran,
\* given the header the config already carries.
AttachToken(st, header) ==
  IF Present(st.access_token) THEN st.access_token ELSE header

\* ------------------------------------------------------- ProtectedRoute
\* What the guard returns: the spinner, a <Navigate replace> to a path, or
\* its children.
GuardOutcomes == {"spinner", "/login", "/dashboard", "children"}

\* The allowedRoles prop: Absent is the default null, Some(S) an array.
AllowedRoleSets ==
  {Absent, Some({}), Some({"admin"}), Some({"staff"}),
   Some({"finance", "approver-level-1", "approver-level-2"})}

\* Variant: the authenticated flag is looked at before the loading flag.
ProtectedRoute_AuthFirst(ld, auth, u, allowedRoles) ==
  IF ~auth THEN "/login"
  ELSE IF ld THEN "spinner"
  ELSE IF Present(allowedRoles) /\ Present(u) /\ u[1].role \notin allowedRoles[1]
    THEN "/dashboard"
  ELSE "children"

\* Variant: a role outside the allowed set is sent to /login.
ProtectedRoute_RoleToLogin(ld, auth, u, allowedRoles) ==
  IF ld THEN "spinner"
  ELSE IF ~auth THEN "/login"
  ELSE IF Present(allowedRoles) /\ Present(u) /\ u[1].role \notin allowedRoles[1]
    THEN "/login"
  ELSE "children"

\* ProtectedRoute({ children, allowedRoles }) with the context values.
ProtectedRoute(ld, auth, u, allowedRoles) ==
  IF ld THEN "spinner"
  ELSE IF ~auth THEN "/login"
  ELSE IF Present(allowedRoles) /\ Present(u) /\ u[1].role \notin allowedRoles[1]
    THEN "/dashboard"
  ELSE "children"

\* ------------------------------------------------------------ App routes
\* The paths of the routes App wraps in <ProtectedRoute>.
GuardedPaths ==
  {"/dashboard", "/requests/my-requests", "/requests/create", "/requests/:id",
   "/requests/:id/edit", "/approvals/pending", "/requests/all",
   "/requests/approved", "/profile", "/admin/users", "/admin/request-types",
   "/admin/approval-levels"}

\* Variant: the admin routes declare allowedRoles={['admin']}.
RouteAllowedRoles_AdminOnly(path) ==
  IF path \in {"/admin/users", "/admin/request-types", "/admin/approval-levels"}
    THEN Some({"admin"})
    ELSE Absent

\* The allowedRoles prop App gives the guard of a route: none anywhere.
RouteAllowedRoles(path) == Absent

\* ----------------------------------------------------------------- menus
Item(path, label) == [path |-> path, label |-> label]

\* The roles the menu components and the detail page are rendered with.
RenderRoles ==
  {"staff", "approver_level_1", "approver_level_2", "approver-level-1",
   "approver-level-2", "finance", "admin", "manager", "null"}

RenderIdentities ==
  {Obj(id, role, RoleDisplay(role), su, "undefined", "undefined") :
     id \in UserIds, role \in RenderRoles, su \in {"true", "false"}}

\* user?.role || 'staff'
RoleOrStaff(u) ==
  IF Present(u) /\ Truthy(u[1].role) THEN u[1].role ELSE "staff"

\* user?.is_superuser || false, as the condition of an if
IsSuperuser(u) == Present(u) /\ Truthy(u[1].is_superuser)

Paths(items) == [i \in DOMAIN items |-> items[i].path]

\* The seenPaths loop: the first item of every path is kept, in order.
RECURSIVE UniqueByPath(_, _)
UniqueByPath(items, seenPaths) ==
  IF items = <<>> THEN <<>>
  ELSE IF Head(items).path \in seenPaths
    THEN UniqueByPath(Tail(items), seenPaths)
  ELSE <<Head(items)>> \o
         UniqueByPath(Tail(items), seenPaths \cup {Head(items).path})

HeaderBaseMenu == <<Item("/dashboard", "Dashboard")>>
HeaderStaffMenu ==
  <<Item("/requests/my-requests", "My Requests"),
    Item("/requests/create", "Create Request")>>
HeaderApproverMenu ==
  <<Item("/approvals/pending", "Pending Approvals"),
    Item("/requests/all", "All Requests")>>
HeaderFinanceMenu ==
  <<Item("/requests/approved", "Approved Requests"),
    Item("/requests/all", "All Requests")>>
HeaderAdminMenu ==
  <<Item("/requests/all", "All Requests"),
    Item("/admin/users", "Users"),
    Item("/admin/request-types", "Request Types"),
    Item("/admin/approval-levels", "Approval Levels")>>

\* Header: allMenuItems before deduplication.
HeaderAllMenuItems(role, isSuperuser) ==
  IF isSuperuser
    THEN IF role # "admin"
      THEN HeaderBaseMenu \o HeaderStaffMenu \o HeaderApproverMenu
             \o HeaderFinanceMenu \o HeaderAdminMenu
      ELSE HeaderBaseMenu \o HeaderAdminMenu
  ELSE IF role = "staff" THEN HeaderBaseMenu \o HeaderStaffMenu
  ELSE IF role \in {"approver_level_1", "approver_level_2",
                    "approver-level-1", "approver-level-2"}
    THEN HeaderBaseMenu \o HeaderApproverMenu
  ELSE IF role = "finance" THEN HeaderBaseMenu \o HeaderFinanceMenu
  ELSE IF role = "admin" THEN HeaderBaseMenu \o HeaderAdminMenu
  ELSE HeaderBaseMenu

\* Header: the menuItems memo.
HeaderMenuItems(u, ld) ==
  IF ~Present(u) /\ ~ld THEN <<>>
  ELSE UniqueByPath(HeaderAllMenuItems(RoleOrStaff(u), IsSuperuser(u)), {})

SidebarBaseMenu == <<Item("/dashboard", "Dashboard")>>
SidebarStaffMenu ==
  <<Item("/requests/my-requests", "My Requests"),
    Item("/requests/create", "Create Request")>>
SidebarApproverMenu ==
  <<Item("/approvals/pending", "Pending Approvals"),
    Item("/requests/all", "All Requests")>>
SidebarFinanceMenu ==
  <<Item("/requests/approved", "Approved Requests"),
    Item("/requests/all", "All Requests")>>
SidebarAdminMenu ==
  <<Item("/requests/all", "All Requests"),
    Item("/admin/users", "Users Management"),
    Item("/admin/request-types", "Request Types"),
    Item("/admin/approval-levels", "Approval Levels")>>
SidebarCommonMenu == <<Item("/profile", "Profile")>>

\* Sidebar: getMenuItems.
SidebarMenuItems(u) ==
  LET role == RoleOrStaff(u)
  IN IF IsSuperuser(u)
       THEN SidebarBaseMenu \o SidebarStaffMenu \o SidebarApproverMenu
              \o SidebarFinanceMenu \o SidebarAdminMenu \o SidebarCommonMenu
     ELSE IF role = "staff"
       THEN SidebarBaseMenu \o SidebarStaffMenu \o SidebarCommonMenu
     ELSE IF role \in {"approver-level-1", "approver-level-2"}
       THEN SidebarBaseMenu \o SidebarApproverMenu \o SidebarCommonMenu
     ELSE IF role = "finance"
       THEN SidebarBaseMenu \o SidebarFinanceMenu \o SidebarCommonMenu
     ELSE IF role = "admin"
       THEN SidebarBaseMenu \o SidebarAdminMenu \o SidebarCommonMenu
     ELSE SidebarBaseMenu

\* ---------------------------------------------------------- RequestDetail
RequestStatuses == {"pending", "approved"}

\* canApprove, as a condition.
canApprove(status, u) ==
  /\ status = "pending"
  /\ \/ Present(u) /\ u[1].role \in {"approver_level_1", "approver_level_2",
                                      "approver-level-1", "approver-level-2"}
     \/ IsSuperuser(u)

getBackPath(u) ==
  LET role == RoleOrStaff(u)
  IN IF role = "finance" THEN "/requests/approved"
     ELSE IF role \in {"approver_level_1", "approver_level_2",
                       "approver-level-1", "approver-level-2"}
       THEN "/approvals/pending"
     ELSE IF role = "admin" \/ IsSuperuser(u) THEN "/requests/all"
     ELSE "/requests/my-requests"

\* ---------------------------------------------------------- ApprovalModal
ModalActions == {"approve", "reject"}

\* The errors a rejected approve/reject call can carry: response.data.error,
\* response.data.message and message, each possibly missing.
CallErrors ==
  {[dataError |-> "Not your turn", dataMessage |-> "undefined", message |-> "Request failed"],
   [dataError |-> "undefined", dataMessage |-> "Invalid", message |-> "Request failed"],
   [dataError |-> "undefined", dataMessage |-> "undefined", message |-> "Network Error"],
   [dataError |-> "undefined", dataMessage |-> "undefined", message |-> "undefined"]}

\* The text onError passes to setError.
ErrorText(error, action) ==
  IF Truthy(error.dataError) THEN error.dataError
  ELSE IF Truthy(error.dataMessage) THEN error.dataMessage
  ELSE IF Truthy(error.message) THEN error.message
  ELSE "Failed to " \o action \o " request"

\* The component state after mount, with the bookkeeping of its calls:
\* mutation is the status of the useMutation result, calls counts the
\* approve/reject calls made, inFlight those not answered yet, scheduled the
\* setTimeout(onSuccess) calls made and onSuccessCalls the timers that fired.
NewModal(action) ==
  [action |-> action, open |-> TRUE, comments |-> "", error |-> "null",
   success |-> FALSE, isSubmitting |-> FALSE, mutation |-> "idle",
   calls |-> 0, inFlight |-> 0, succeeded |-> 0, scheduled |-> 0,
   onSuccessCalls |-> 0]

\* Variant: success does not disable the submit button.
SubmitDisabled_NotAfterSuccess(m) == m.mutation = "loading" \/ m.isSubmitting

\* disabled={mutation.isLoading || success || isSubmitting}
SubmitDisabled(m) == m.mutation = "loading" \/ m.success \/ m.isSubmitting

\* Textarea: disabled={success || mutation.isLoading || isSubmitting}
CommentsDisabled(m) == m.success \/ m.mutation = "loading" \/ m.isSubmitting

\* Cancel/Close button: disabled={mutation.isLoading || isSubmitting}
CancelDisabled(m) == m.mutation = "loading" \/ m.isSubmitting

\* ------------------------------------------------------------------ state
VARIABLES
  storage,          \* localStorage: access_token, refresh_token, user
  user,             \* AuthProvider state `user` (Absent is null)
  loading,          \* AuthProvider state `loading`
  isAuthenticated,  \* AuthProvider state `isAuthenticated`
  initPc,           \* position of the initAuth effect
  reqs,             \* requests in flight through the api client on this page
  navPending,       \* window.location.href = '/login' assigned, not yet loaded
  last,             \* what the last step did: operation, request sent or settled
  trip,             \* login-then-reload bookkeeping: phase and login's result
  view              \* what the guard, the menus and the detail page last rendered

vars == <<storage, user, loading, isAuthenticated, initPc, reqs, navPending,
          last, trip, view>>

\* Nothing rendered yet.
NoView ==
  [guard |-> Absent, header |-> Absent, sidebar |-> Absent, detail |-> Absent,
   route |-> Absent, modal |-> Absent]

NoTrip == [phase |-> "none", ident |-> Absent, payload |-> Absent]

\* Empty object, the data of a response that carries none.
NoObj == Obj("", "undefined", "undefined", "undefined", "undefined", "undefined")

NoData == [access |-> 0, refresh |-> 0, user |-> NoObj]

\* A request config with its bookkeeping: retry is originalRequest._retry; the
\* other fields count its sends and refresh calls and record the statuses it
\* received and the refresh result.
IdleReq ==
  [id |-> 0, kind |-> "none", stage |-> "idle", retry |-> FALSE,
   sends |-> 0, refreshes |-> 0, resps |-> <<>>, refreshResult |-> "none"]

\* A settled request as its caller saw it: the promise's outcome, the response
\* that settled it (n for the n-th response, -1 for the refresh error) and the
\* data it resolved with.
Settled(q, outcome, cause, data) ==
  [id |-> q.id, kind |-> q.kind, stage |-> "done", retry |-> q.retry,
   sends |-> q.sends, refreshes |-> q.refreshes, resps |-> q.resps,
   refreshResult |-> q.refreshResult,
   outcome |-> outcome, cause |-> cause, data |-> data]

NoSettled == Settled(IdleReq, "pending", 0, NoObj)

\* A step: the operation, whether the interceptor tore the session down, the
\* Authorization header of the request it sent, the access token the refresh
\* endpoint returned, and the request it settled.
Step(op, teardown, auth, access, req) ==
  [op |-> op, teardown |-> teardown, auth |-> auth, access |-> access, req |-> req]

Act(op) == Step(op, FALSE, Absent, Absent, NoSettled)

ReqIds == 1..MaxReqs

FreeIds == {r \in ReqIds : reqs[r].stage = "idle"}

InFlight(kind) == \E r \in ReqIds : reqs[r].kind = kind

\* api(config): the request goes out.
Issue(r, kind) ==
  [IdleReq EXCEPT !.id = r, !.kind = kind, !.stage = "sent", !.sends = 1]

Sess(st, u, auth, ld, pc) ==
  [storage |-> st, user |-> u, isAuthenticated |-> auth, loading |-> ld, initPc |-> pc]

\* Variant: setLoading(false) runs on the success path only.
InitAuthResume_LoadingStuck(sess, ok, data) ==
  IF ok
    THEN LET normalizedUser == normalizeUserData(data.user)
         IN Sess(RestoreStore(sess.storage, normalizedUser), Some(normalizedUser),
                 TRUE, FALSE, "ok")
    ELSE Sess(InitAuthClear(sess.storage), Absent, FALSE, sess.loading, "failed")

\* initAuth after `await authService.getCurrentUser()`; sess is the session
\* the interceptor left, ok tells whether the promise resolved.
InitAuthResume(sess, ok, data) ==
  IF ok
    THEN LET normalizedUser == normalizeUserData(data.user)
         IN Sess(RestoreStore(sess.storage, normalizedUser), Some(normalizedUser),
                 TRUE, FALSE, "ok")
    ELSE Sess(InitAuthClear(sess.storage), Absent, FALSE, FALSE, "failed")

\* login after `await authService.login(username, password)`.
LoginResume(sess, ok, data) ==
  IF ok
    THEN Sess(LoginStore(sess.storage, data.access, data.refresh, data.user),
              Some(data.user), TRUE, sess.loading, sess.initPc)
    ELSE sess

\* The caller's continuation once its promise settled.
Resume(kind, sess, ok, data) ==
  CASE kind = "me" -> InitAuthResume(sess, ok, data)
    [] kind = "login" -> LoginResume(sess, ok, data)
    [] OTHER -> sess

Current == Sess(storage, user, isAuthenticated, loading, initPc)

Install(sess) ==
  /\ storage' = sess.storage
  /\ user' = sess.user
  /\ isAuthenticated' = sess.isAuthenticated
  /\ loading' = sess.loading
  /\ initPc' = sess.initPc

ResponseData(kind) ==
  CASE kind = "me" -> {[NoData EXCEPT !.user = p] : p \in MePayloads}
    [] kind = "login" ->
         {[access |-> a, refresh |-> f, user |-> i] :
            a \in AccessTokens, f \in RefreshTokens, i \in LoginIdentities}
    [] OTHER -> {NoData}

TripAfterSettle(kind, ok, data) ==
  IF kind = "login" /\ ok
    THEN [phase |-> "login", ident |-> Some(data.user), payload |-> Absent]
  ELSE IF kind = "me" /\ ok /\ trip.phase = "reload"
    THEN [trip EXCEPT !.phase = "restored", !.payload = Some(data.user)]
  ELSE NoTrip

\* ------------------------------------------------------------------ Init
\* What an earlier visit left in localStorage: nothing, or a login's triple.
PriorSessions ==
  {EmptyStorage} \cup
  {LoginStore(EmptyStorage, a, f, i) :
     a \in AccessTokens, f \in RefreshTokens, i \in LoginIdentities}

Init ==
  /\ storage \in PriorSessions
  /\ user = Absent
  /\ loading = TRUE
  /\ isAuthenticated = FALSE
  /\ initPc = "start"
  /\ reqs = [r \in ReqIds |-> IdleReq]
  /\ navPending = FALSE
  /\ last = Act("load")
  /\ trip = NoTrip
  /\ view = NoView

\* --------------------------------------------------------------- actions
\* useEffect(() => { initAuth() }, []) up to its first await (or to its end).
\* The effect runs right after mount, before any other handler of the page.
InitAuth ==
  /\ initPc = "start"
  /\ IF Present(storage.user) /\ Present(storage.access_token)
       THEN /\ \E r \in FreeIds :
                 /\ \A y \in FreeIds : r <= y
                 /\ reqs' = [reqs EXCEPT ![r] = Issue(r, "me")]
            /\ initPc' = "awaiting"
            /\ last' = Step("initAuth", FALSE, AttachToken(storage, Absent),
                            Absent, NoSettled)
            /\ UNCHANGED <<storage, user, isAuthenticated, loading, trip>>
       ELSE /\ user' = Absent
            /\ isAuthenticated' = FALSE
            /\ loading' = FALSE
            /\ initPc' = "skipped"
            /\ last' = Act("initAuth")
            /\ trip' = NoTrip
            /\ UNCHANGED <<storage, reqs>>
  /\ UNCHANGED <<navPending, view>>

\* Login form submit: login(username, password) up to its await, POST
\* /api/token/ goes out.  The form is disabled while its call is pending.
Login ==
  /\ initPc # "start"
  /\ ~InFlight("login")
  /\ \E r \in FreeIds :
       /\ \A y \in FreeIds : r <= y
       /\ reqs' = [reqs EXCEPT ![r] = Issue(r, "login")]
  /\ last' = Step("login", FALSE, AttachToken(storage, Absent), Absent, NoSettled)
  /\ trip' = NoTrip
  /\ UNCHANGED <<storage, user, loading, isAuthenticated, initPc, navPending, view>>

\* A guarded page issues a request through the api client; ProtectedRoute
\* renders pages only for an authenticated session that finished loading.
DataRequest ==
  /\ isAuthenticated /\ ~loading
  /\ \E r \in FreeIds :
       /\ \A y \in FreeIds : r <= y
       /\ reqs' = [reqs EXCEPT ![r] = Issue(r, "data")]
  /\ last' = Step("request", FALSE, AttachToken(storage, Absent), Absent, NoSettled)
  /\ trip' = NoTrip
  /\ UNCHANGED <<storage, user, loading, isAuthenticated, initPc, navPending, view>>

\* A response to a request in flight arrives: the response interceptor runs and,
\* when the promise settles, so does the caller's continuation.
Respond(r, status, data) ==
  LET q == reqs[r]
      q1 == [q EXCEPT !.resps = Append(@, status)]
      n == Len(q1.resps)
  IN
  /\ q.stage = "sent"
  /\ UNCHANGED view
  /\ IF status = "200"
       THEN \* (response) => response
         /\ reqs' = [reqs EXCEPT ![r] = IdleReq]
         /\ Install(Resume(q.kind, Current, TRUE, data))
         /\ trip' = TripAfterSettle(q.kind, TRUE, data)
         /\ last' = Step("response", FALSE, Absent, Absent,
                         Settled(q1, "resolved", n, data.user))
         /\ UNCHANGED navPending
     ELSE IF ShouldRefresh(status, q.retry)
       THEN IF ~Present(storage.refresh_token)
         THEN \* no refresh token: tear down, redirect, reject with the error
           /\ reqs' = [reqs EXCEPT ![r] = IdleReq]
           /\ Install(Resume(q.kind,
                             [Current EXCEPT !.storage = NoRefreshTeardown(storage)],
                             FALSE, data))
           /\ navPending' = TRUE
           /\ trip' = NoTrip
           /\ last' = Step("response", TRUE, Absent, Absent,
                           Settled([q1 EXCEPT !.retry = TRUE], "rejected", n, NoObj))
         ELSE \* POST /api/token/refresh/ goes out
           /\ reqs' = [reqs EXCEPT ![r] = [q1 EXCEPT !.retry = TRUE,
                                            !.stage = "refreshing",
                                            !.refreshes = @ + 1]]
           /\ trip' = IF q.kind = "me" THEN trip ELSE NoTrip
           /\ last' = Act("response")
           /\ UNCHANGED <<storage, user, loading, isAuthenticated, initPc, navPending>>
     ELSE \* return Promise.reject(error)
       /\ reqs' = [reqs EXCEPT ![r] = IdleReq]
       /\ Install(Resume(q.kind, Current, FALSE, data))
       /\ trip' = TripAfterSettle(q.kind, FALSE, data)
       /\ last' = Step("response", FALSE, Absent, Absent,
                       Settled(q1, "rejected", n, NoObj))
       /\ UNCHANGED navPending

\* The refresh endpoint answers with a new access token: it is stored, put on
\* the original request, and the request is re-issued through the api client.
RefreshOk(r, access) ==
  LET q == reqs[r]
      st == RefreshStore(storage, access)
  IN
  /\ q.stage = "refreshing"
  /\ storage' = st
  /\ reqs' = [reqs EXCEPT ![r] = [q EXCEPT !.stage = "sent",
                                   !.refreshResult = "ok",
                                   !.sends = @ + 1]]
  /\ trip' = IF q.kind = "me" THEN trip ELSE NoTrip
  /\ last' = Step("refreshOk", FALSE, AttachToken(st, Some(access)), Some(access),
                  NoSettled)
  /\ UNCHANGED <<user, loading, isAuthenticated, initPc, navPending, view>>

\* The refresh call rejects: catch (refreshError).
RefreshFail(r) ==
  LET q == reqs[r]
  IN
  /\ q.stage = "refreshing"
  /\ UNCHANGED view
  /\ reqs' = [reqs EXCEPT ![r] = IdleReq]
  /\ Install(Resume(q.kind,
                    [Current EXCEPT !.storage = InterceptorTeardown(storage)],
                    FALSE, NoData))
  /\ navPending' = TRUE
  /\ trip' = NoTrip
  /\ last' = Step("refreshFail", TRUE, Absent, Absent,
                  Settled([q EXCEPT !.refreshResult = "fail"], "rejected", -1, NoObj))

Logout ==
  /\ initPc # "start"
  /\ storage' = LogoutClear(storage)
  /\ user' = Absent
  /\ isAuthenticated' = FALSE
  /\ last' = Act("logout")
  /\ trip' = NoTrip
  /\ UNCHANGED <<loading, initPc, reqs, navPending, view>>

UpdateUser(userData) ==
  /\ initPc # "start"
  /\ user' = Some(userData)
  /\ storage' = UpdateStore(storage, userData)
  /\ last' = Act("updateUser")
  /\ trip' = NoTrip
  /\ UNCHANGED <<loading, isAuthenticated, initPc, reqs, navPending, view>>

\* A new document is loaded: AuthProvider is constructed afresh and every
\* request of the old page is abandoned.  localStorage survives.
FreshPage ==
  /\ user' = Absent
  /\ loading' = TRUE
  /\ isAuthenticated' = FALSE
  /\ initPc' = "start"
  /\ reqs' = [r \in ReqIds |-> IdleReq]
  /\ navPending' = FALSE
  /\ last' = Act("load")
  /\ view' = NoView
  /\ UNCHANGED storage

\* The navigation started by window.location.href = '/login' completes.
Redirect ==
  /\ navPending
  /\ FreshPage
  /\ trip' = NoTrip

\* The user reloads the page.
Reload ==
  /\ ~navPending
  /\ initPc # "start"
  /\ FreshPage
  /\ trip' = IF trip.phase = "login" THEN [trip EXCEPT !.phase = "reload"] ELSE NoTrip

AnyResponse(r) ==
  \E status \in Statuses :
    \E data \in (IF status = "200" THEN ResponseData(reqs[r].kind) ELSE {NoData}) :
      Respond(r, status, data)

AnyRefreshResponse(r) ==
  RefreshFail(r) \/ \E access \in AccessTokens : RefreshOk(r, access)

Next ==
  \/ InitAuth
  \/ Login
  \/ DataRequest
  \/ \E r \in ReqIds : AnyResponse(r)
  \/ \E r \in ReqIds : AnyRefreshResponse(r)
  \/ Logout
  \/ \E userData \in LoginIdentities : UpdateUser(userData)
  \/ Redirect
  \/ Reload

Spec == Init /\ [][Next]_vars

\* Every network call is eventually answered, the effect runs after mount and
\* a navigation that was started completes.
Fairness ==
  /\ WF_vars(InitAuth)
  /\ \A r \in ReqIds : WF_vars(AnyResponse(r))
  /\ \A r \in ReqIds : WF_vars(AnyRefreshResponse(r))
  /\ WF_vars(Redirect)

FairSpec == Spec /\ Fairness

\* ------------------------------------------------------------- rendering
\* The components read the context value { user, loading, isAuthenticated }
\* and render from it.  The values AuthProvider can supply: every combination
\* except an authenticated session without an identity.
RenderInit ==
  /\ user \in {Absent} \cup {Some(i) : i \in RenderIdentities}
  /\ loading \in BOOLEAN
  /\ isAuthenticated \in BOOLEAN
  /\ isAuthenticated => Present(user)
  /\ storage = EmptyStorage
  /\ initPc = "start"
  /\ reqs = [r \in ReqIds |-> IdleReq]
  /\ navPending = FALSE
  /\ last = Act("load")
  /\ trip = NoTrip
  /\ view = NoView

\* <ProtectedRoute allowedRoles={allowedRoles}> renders.
RenderProtectedRoute(allowedRoles) ==
  /\ view' = [view EXCEPT !.guard =
                Some([allowedRoles |-> allowedRoles,
                      outcome |-> ProtectedRoute(loading, isAuthenticated, user,
                                                 allowedRoles)])]
  /\ UNCHANGED <<storage, user, loading, isAuthenticated, initPc, reqs,
                 navPending, last, trip>>

\* <Header> renders: the menuItems memo is computed from user and loading.
RenderHeader ==
  /\ view' = [view EXCEPT !.header = Some(HeaderMenuItems(user, loading))]
  /\ UNCHANGED <<storage, user, loading, isAuthenticated, initPc, reqs,
                 navPending, last, trip>>

\* <Sidebar> renders: getMenuItems() is called with user.
RenderSidebar ==
  /\ view' = [view EXCEPT !.sidebar = Some(SidebarMenuItems(user))]
  /\ UNCHANGED <<storage, user, loading, isAuthenticated, initPc, reqs,
                 navPending, last, trip>>

\* <RequestDetail> renders a loaded request of the given status.
RenderRequestDetail(status) ==
  /\ view' = [view EXCEPT !.detail =
                Some([status |-> status,
                      canApprove |-> canApprove(status, user),
                      backPath |-> getBackPath(user)])]
  /\ UNCHANGED <<storage, user, loading, isAuthenticated, initPc, reqs,
                 navPending, last, trip>>

\* The router matches a guarded route of App and renders its element.
RenderAppRoute(path) ==
  /\ view' = [view EXCEPT !.route =
                Some([path |-> path,
                      outcome |-> ProtectedRoute(loading, isAuthenticated, user,
                                                 RouteAllowedRoles(path))])]
  /\ UNCHANGED <<storage, user, loading, isAuthenticated, initPc, reqs,
                 navPending, last, trip>>

RenderNext ==
  \/ \E allowedRoles \in AllowedRoleSets : RenderProtectedRoute(allowedRoles)
  \/ \E path \in GuardedPaths : RenderAppRoute(path)
  \/ RenderHeader
  \/ RenderSidebar
  \/ \E status \in RequestStatuses : RenderRequestDetail(status)

RenderSpec == RenderInit /\ [][RenderNext]_vars

\* --------------------------------------------------------- approval modal
\* An approver's page has opened one ApprovalModal for a request and an action.
ModalInit ==
  /\ \E i \in LoginIdentities :
       /\ user = Some(i)
       /\ storage = LoginStore(EmptyStorage, 1, 1, i)
  /\ loading = FALSE
  /\ isAuthenticated = TRUE
  /\ initPc = "ok"
  /\ reqs = [r \in ReqIds |-> IdleReq]
  /\ navPending = FALSE
  /\ last = Act("load")
  /\ trip = NoTrip
  /\ \E action \in ModalActions :
       view = [NoView EXCEPT !.modal = Some(NewModal(action))]

Modal == view.modal[1]

ModalStep(m) ==
  /\ view' = [view EXCEPT !.modal = Some(m)]
  /\ UNCHANGED <<storage, user, loading, isAuthenticated, initPc, reqs,
                 navPending, last, trip>>

\* onChange of the textarea.
TypeComments(text) ==
  /\ Modal.open
  /\ ~CommentsDisabled(Modal)
  /\ text # Modal.comments
  /\ ModalStep([Modal EXCEPT !.comments = text])

\* handleSubmit up to its await: the submit button was pressed, the call
\* goes out.
Submit ==
  /\ Modal.open
  /\ ~SubmitDisabled(Modal)
  /\ Modal.calls < MaxCalls
  /\ ModalStep([Modal EXCEPT !.error = "null", !.isSubmitting = TRUE,
                             !.mutation = "loading", !.calls = @ + 1,
                             !.inFlight = @ + 1])

\* The call resolves: onSuccess of the mutation, then handleSubmit returns.
CallSucceeds ==
  /\ Modal.inFlight > 0
  /\ ModalStep([Modal EXCEPT !.inFlight = @ - 1, !.error = "null",
                             !.success = TRUE, !.isSubmitting = FALSE,
                             !.mutation = "success", !.succeeded = @ + 1,
                             !.scheduled = @ + 1])

\* The call rejects: onError of the mutation, then the catch of handleSubmit.
CallFails(error) ==
  /\ Modal.inFlight > 0
  /\ ModalStep([Modal EXCEPT !.inFlight = @ - 1, !.success = FALSE,
                             !.isSubmitting = FALSE, !.mutation = "error",
                             !.error = ErrorText(error, Modal.action)])

\* A timer set by onSuccess fires after 2 seconds: onSuccess() of the parent
\* closes the modal.
TimerFires ==
  /\ Modal.onSuccessCalls < Modal.scheduled
  /\ ModalStep([Modal EXCEPT !.onSuccessCalls = @ + 1, !.open = FALSE])

\* onClose: the backdrop or the X button (always enabled), or the
\* Cancel/Close button.
Close ==
  /\ Modal.open
  /\ ModalStep([Modal EXCEPT !.open = FALSE])

ModalNext ==
  \/ \E text \in {"", "ok"} : TypeComments(text)
  \/ Submit
  \/ CallSucceeds
  \/ \E error \in CallErrors : CallFails(error)
  \/ TimerFires
  \/ Close

ModalSpec == ModalInit /\ [][ModalNext]_vars

\* ================================================================ claims
AllPresent(st) == Present(st.access_token) /\ Present(st.refresh_token) /\ Present(st.user)
AllAbsent(st) == ~Present(st.access_token) /\ ~Present(st.refresh_token) /\ ~Present(st.user)

\* Every request the page knows of: those in flight and the one just last.req.
Known == {reqs[r] : r \in ReqIds} \cup {last.req}

RefreshSucceeds(r) ==
  reqs[r].stage = "refreshing" /\ reqs'[r].stage = "sent"
RefreshFails(r) ==
  /\ reqs[r].stage = "refreshing" /\ reqs'[r].stage = "idle"
  /\ last'.req.id = r /\ last'.req.refreshResult = "fail"
RestoreSucceeds == initPc = "awaiting" /\ initPc' = "ok"
RestoreFails == initPc = "awaiting" /\ initPc' = "failed"

\* C1: when the first response is a 401 and the refresh endpoint returns a new
\* access token, that token is persisted, the request is re-issued exactly once
\* carrying it, and the caller's promise settles only with the outcome of the
\* re-issued request (never with the intermediate 401).
C1_RefreshSuccessRetries ==
  /\ [][\A r \in ReqIds : RefreshSucceeds(r) =>
          /\ reqs'[r].refreshResult = "ok"
          /\ last'.access # Absent
          /\ storage'.access_token = last'.access
          /\ last'.auth = last'.access
          /\ reqs'[r].sends = reqs[r].sends + 1
          /\ last'.req = NoSettled]_vars
  /\ [](\A q \in Known : q.refreshResult = "ok" =>
          /\ q.sends = 2
          /\ q.resps[1] = "401"
          /\ q.stage \in {"sent", "done"}
          /\ q.stage = "sent" => Len(q.resps) = 1
          /\ q.stage = "done" =>
               /\ q.cause = 2
               /\ q.outcome = IF q.resps[2] = "200" THEN "resolved" ELSE "rejected")

C1_Witness ==
  /\ last.req.refreshResult = "ok"
  /\ last.req.resps = <<"401", "200">>
  /\ last.req.outcome = "resolved"
  /\ last.req.sends = 2

\* C2: when the refresh call fails, the three persisted keys are removed, the
\* browser is redirected to /login and the caller's promise rejects with the
\* refresh error.
C2_RefreshFailureTearsDown ==
  [][\A r \in ReqIds : (reqs[r].stage = "refreshing" /\ reqs'[r].stage = "idle"
                         /\ last'.op # "load") =>
       /\ last'.req.id = r
       /\ last'.req.refreshResult = "fail"
       /\ AllAbsent(storage')
       /\ navPending'
       /\ last'.req.outcome = "rejected"
       /\ last'.req.cause = -1]_vars

C2_Witness ==
  /\ last.req.refreshResult = "fail"
  /\ last.req.outcome = "rejected"
  /\ last.req.kind = "data"
  /\ navPending
  /\ last.op = "refreshFail"

\* C3: the refresh endpoint is called at most once per request, a request is
\* sent at most twice, and a 401 on the re-issued request is propagated to the
\* caller without another refresh or retry.
C3_AtMostOneRefresh ==
  \A q \in Known :
    /\ q.refreshes <= 1
    /\ q.sends <= 2
    /\ (Len(q.resps) = 2 /\ q.resps[2] = "401") =>
         /\ q.stage = "done"
         /\ q.outcome = "rejected"
         /\ q.cause = 2
         /\ q.refreshes = 1

C3_Witness ==
  /\ last.req.resps = <<"401", "401">>
  /\ last.req.outcome = "rejected"
  /\ last.req.sends = 2
  /\ last.req.refreshes = 1

\* C4: in every reachable state the three storage keys access_token,
\* refresh_token and user are all present or all absent.
C4_StorageAllOrNone == AllPresent(storage) \/ AllAbsent(storage)

\* C5: an authenticated session becomes unauthenticated only by logout() or by
\* an HTTP-client teardown (a page load starts a new session).
C5_AuthenticatedUntilLogoutOrTeardown ==
  [][(isAuthenticated /\ ~isAuthenticated') =>
       (last'.op \in {"logout", "load"} \/ last'.teardown)]_vars

\* C6: a page starts in the loading state; once the effect has run, loading
\* eventually becomes false unless the page is left for a new page load
\* (initPc back at "start"); and loading never becomes true again during that
\* page load.
C6_RestoreTerminatesOnce ==
  /\ [](initPc = "start" => loading)
  /\ (initPc = "start" ~> initPc # "start")
  /\ ((loading /\ initPc # "start") ~> (~loading \/ initPc = "start"))
  /\ [][(~loading /\ last'.op # "load") => ~loading']_vars

C6_Witness ==
  /\ ~loading
  /\ initPc \in {"ok", "failed"}
  /\ last.op \in {"logout", "updateUser"}

\* C7: when the who-am-I call of restore() fails, then on completion the three
\* persisted keys are absent, the identity is null and the session is
\* unauthenticated.
C7_RestoreFailureClears ==
  [][RestoreFails =>
       /\ AllAbsent(storage')
       /\ user' = Absent
       /\ ~isAuthenticated'
       /\ ~loading']_vars

C7_Witness ==
  /\ initPc = "failed"
  /\ last.req.kind = "me"
  /\ last.req.resps = <<"network">>
  /\ last.op = "response"
  /\ AllAbsent(storage)

\* C8: when the who-am-I call succeeds, the normalized payload replaces the
\* in-memory identity and the persisted user key and the session becomes
\* authenticated; a payload without role and with is_superuser = true becomes
\* role 'admin', role_display 'Administrator', is_superuser true.
C8_RestoreSuccessNormalizes ==
  [][RestoreSucceeds =>
       LET p == last'.req.data
           n == normalizeUserData(p)
       IN /\ last'.req.kind = "me"
          /\ user' = Some(n)
          /\ storage'.user = Some(JSONstringify(n))
          /\ isAuthenticated'
          /\ n.id = p.id /\ n.username = p.username /\ n.email = p.email
          /\ (p.role = "undefined" /\ p.is_superuser = "true") =>
               /\ n.role = "admin"
               /\ n.role_display = "Administrator"
               /\ n.is_superuser = "true"]_vars

C8_Witness ==
  /\ initPc = "ok"
  /\ last.op = "response"
  /\ last.req.kind = "me"
  /\ last.req.data.role = "undefined"
  /\ last.req.data.is_superuser = "true"
  /\ last.req.data.profile = "object"
  /\ user # Absent
  /\ user[1].role = "admin"
  /\ isAuthenticated

\* A payload from which the normaliser can take a non-empty role.
HasRoleSource(p) ==
  \/ Truthy(p.role)
  \/ /\ p.role = "undefined"
     /\ \/ Truthy(p.is_superuser)
        \/ Truthy(p.profile) /\ Truthy(p.profile_role)

\* C9 (as claimed): for every who-am-I payload shape the identity stored by
\* restore() has a non-empty role.
C9_RoleNeverEmpty ==
  [][RestoreSucceeds => Truthy(user'[1].role)]_vars

\* C9 (amended): the stored role is non-empty exactly when the payload has a
\* non-empty role, or lacks role and has is_superuser true, or lacks role and
\* has a profile with a non-empty role; a payload lacking role, not superuser
\* and without a profile role is stored with role null.
C9_RoleNonEmptyIffSource ==
  [][RestoreSucceeds =>
       LET p == last'.req.data
       IN /\ Truthy(user'[1].role) <=> HasRoleSource(p)
          /\ (p.role = "undefined" /\ ~HasRoleSource(p)) => user'[1].role = "null"
          /\ storage'.user[1].role = user'[1].role]_vars

C9_Witness ==
  /\ initPc = "ok"
  /\ last.op = "response"
  /\ last.req.kind = "me"
  /\ last.req.data.role = "undefined"
  /\ last.req.data.profile = "undefined"
  /\ ~Truthy(last.req.data.is_superuser)
  /\ user # Absent
  /\ user[1].role = "null"

\* The role the server holds for the user a who-am-I payload describes.
ServerRole(p) == IF p.role # "undefined" THEN p.role ELSE p.profile_role

\* A login identity and a who-am-I payload describe the same server-side user.
SameServerUser(ident, p) ==
  /\ p.id = ident.id /\ p.username = ident.username /\ p.email = ident.email
  /\ (p.role # "undefined" \/ p.profile = "object")
  /\ ServerRole(p) = ident.role
  /\ Truthy(p.is_superuser) = Truthy(ident.is_superuser)

\* The six identity fields agree.
Same6(a, b) ==
  /\ a.id = b.id /\ a.username = b.username /\ a.email = b.email
  /\ a.role = b.role /\ a.role_display = b.role_display
  /\ a.is_superuser = b.is_superuser

\* C10: login followed immediately by a reload whose restore() succeeds for
\* the same server-side user leaves the normalized login identity.
C10_LoginRestoreRoundTrip ==
  (trip.phase = "restored" /\ SameServerUser(trip.ident[1], trip.payload[1]))
    => Same6(user[1], normalizeUserData(trip.ident[1]))

\* C11: logout() issues no network request, removes the three keys, sets the
\* identity to null and the session to unauthenticated; it can always be
\* called again, and a logout on a logged-out session changes nothing.
C11_LogoutClearsAndIdempotent ==
  /\ [][Logout =>
          /\ reqs' = reqs
          /\ AllAbsent(storage')
          /\ user' = Absent
          /\ ~isAuthenticated'
          /\ (AllAbsent(storage) /\ user = Absent /\ ~isAuthenticated) =>
               UNCHANGED <<storage, user, isAuthenticated, loading, navPending>>]_vars
  /\ [](last.op = "logout" => ENABLED Logout)

C11_Witness ==
  /\ last.op = "logout"
  /\ AllAbsent(storage)
  /\ user = Absent
  /\ ~isAuthenticated
  /\ \E r \in ReqIds : reqs[r].kind = "data" /\ reqs[r].stage = "sent"

\* A step of the api client on the token-issue request r of login: a response
\* or a refresh answer for it arrives.
LoginCallStep(r) ==
  /\ reqs[r].kind = "login"
  /\ reqs'[r] # reqs[r]
  /\ last'.op \in {"response", "refreshOk", "refreshFail"}

LoginResolves(r) ==
  /\ LoginCallStep(r)
  /\ last'.req.id = r
  /\ last'.req.outcome = "resolved"

LoginRejects(r) ==
  /\ LoginCallStep(r)
  /\ last'.req.id = r
  /\ last'.req.outcome = "rejected"

\* C12: when the token-issue call of login() rejects, login() rejects with
\* the error of the answer to that call, and no step of the call has changed
\* the three persisted keys, the in-memory identity or the authenticated flag.
C12_LoginFailureLeavesSession ==
  [][\A r \in ReqIds :
       /\ (LoginCallStep(r) /\ ~LoginResolves(r)) =>
            UNCHANGED <<storage, user, isAuthenticated>>
       /\ LoginRejects(r) =>
            (last'.req.cause = 1 /\ last'.req.sends = 1)]_vars

\* C13: updateUser(newIdentity) replaces the in-memory identity and the
\* persisted user key with newIdentity and leaves access_token, refresh_token,
\* the authenticated flag and the loading flag unchanged.
C13_UpdateUserFrame ==
  [][\A newIdentity \in LoginIdentities :
       UpdateUser(newIdentity) =>
         /\ user' = Some(newIdentity)
         /\ storage'.user = Some(JSONstringify(newIdentity))
         /\ storage'.access_token = storage.access_token
         /\ storage'.refresh_token = storage.refresh_token
         /\ UNCHANGED <<isAuthenticated, loading>>]_vars

C13_Witness ==
  /\ last.op = "updateUser"
  /\ isAuthenticated
  /\ AllPresent(storage)
  /\ user # Absent
  /\ user[1].role = "admin"
  /\ storage.user = Some(JSONstringify(user[1]))

\* C14: while the session is loading the guard renders only the waiting
\* indicator: neither the guarded content nor a redirect, whatever the
\* identity, the authenticated flag and the allowed-role set are.
C14_GuardWaitsWhileLoading ==
  (loading /\ Present(view.guard)) => view.guard[1].outcome = "spinner"

C14_Witness ==
  /\ loading
  /\ isAuthenticated
  /\ Present(user)
  /\ user[1].role = "staff"
  /\ Present(view.guard)
  /\ view.guard[1].allowedRoles = Some({"admin"})
  /\ view.guard[1].outcome = "spinner"

\* C15: once loading is over the guard has exactly one of three outcomes:
\* an anonymous session is redirected to /login; an authenticated identity
\* whose role is not in the declared allowed-role set is redirected to
\* /dashboard (never /login); an authenticated identity on a route without a
\* declared set, or whose role is in the set, is rendered the content.
C15_GuardDecisionTable ==
  (~loading /\ Present(view.guard)) =>
    LET allowedRoles == view.guard[1].allowedRoles
        outcome == view.guard[1].outcome
    IN /\ outcome \in GuardOutcomes \ {"spinner"}
       /\ ~isAuthenticated => outcome = "/login"
       /\ (isAuthenticated /\ Present(allowedRoles)
             /\ user[1].role \notin allowedRoles[1]) => outcome = "/dashboard"
       /\ (isAuthenticated /\ (~Present(allowedRoles)
                                \/ user[1].role \in allowedRoles[1])) =>
            outcome = "children"

C15_Witness ==
  /\ ~loading
  /\ isAuthenticated
  /\ user[1].role = "finance"
  /\ Present(view.guard)
  /\ view.guard[1].allowedRoles = Some({"admin"})
  /\ view.guard[1].outcome = "/dashboard"

\* C16: once loading is over, an authenticated identity with is_superuser
\* true is rendered the guarded content whatever allowed-role set the route
\* declares and whatever its role is.
C16_SuperuserPassesGuard ==
  (~loading /\ isAuthenticated /\ IsSuperuser(user) /\ Present(view.guard)) =>
    view.guard[1].outcome = "children"

\* The lists the menu claims name, as paths.
DashboardPath == <<"/dashboard">>
StaffSetPaths == <<"/requests/my-requests", "/requests/create">>
ApproverSetPaths == <<"/approvals/pending", "/requests/all">>
FinanceSetPaths == <<"/requests/approved", "/requests/all">>
AdminSetPaths ==
  <<"/requests/all", "/admin/users", "/admin/request-types",
    "/admin/approval-levels">>
ProfilePath == <<"/profile">>

\* Dashboard, My Requests, Create Request, Pending Approvals, All Requests,
\* Approved Requests, Users, Request Types, Approval Levels.
SuperuserUnionPaths ==
  <<"/dashboard", "/requests/my-requests", "/requests/create",
    "/approvals/pending", "/requests/all", "/requests/approved",
    "/admin/users", "/admin/request-types", "/admin/approval-levels">>

ApproverSpellings ==
  {"approver_level_1", "approver_level_2", "approver-level-1", "approver-level-2"}

KnownRoles == {"staff", "finance", "admin"} \cup ApproverSpellings

NoRepeat(seq) == \A i, j \in DOMAIN seq : seq[i] = seq[j] => i = j

SuperuserMenuPaths(u) ==
  IF u[1].role = "admin" THEN DashboardPath \o AdminSetPaths
  ELSE SuperuserUnionPaths

HeaderMenuOfSuperuser ==
  (Present(user) /\ IsSuperuser(user) /\ Present(view.header)) =>
    /\ Paths(view.header[1]) = SuperuserMenuPaths(user)
    /\ NoRepeat(Paths(view.header[1]))

SidebarMenuOfSuperuser ==
  (Present(user) /\ IsSuperuser(user) /\ Present(view.sidebar)) =>
    /\ Paths(view.sidebar[1]) = SuperuserMenuPaths(user) \o ProfilePath
    /\ NoRepeat(Paths(view.sidebar[1]))

\* C17: for an identity with is_superuser true the Header menu is, when the
\* role is not 'admin', the path-deduplicated union of the base entry with
\* the staff, approver, finance and admin sets, and, when the role is
\* 'admin', the base entry plus the admin set, no entry twice; the Sidebar
\* menu is the same list followed by Profile.
C17_SuperuserMenu == HeaderMenuOfSuperuser /\ SidebarMenuOfSuperuser

\* The one contribution set of a known role.
RoleSetPaths(role) ==
  CASE role = "staff" -> StaffSetPaths
    [] role \in ApproverSpellings -> ApproverSetPaths
    [] role = "finance" -> FinanceSetPaths
    [] role = "admin" -> AdminSetPaths

InSeq(x, seq) == \E i \in DOMAIN seq : seq[i] = x

KnownNonSuperuser ==
  Present(user) /\ ~IsSuperuser(user) /\ user[1].role \in KnownRoles

HeaderMenuOfRole ==
  (KnownNonSuperuser /\ Present(view.header)) =>
    LET paths == Paths(view.header[1])
    IN /\ paths = DashboardPath \o RoleSetPaths(user[1].role)
       /\ user[1].role = "finance" =>
            (~InSeq("/requests/create", paths) /\ ~InSeq("/admin/users", paths))

SidebarMenuOfRole ==
  (KnownNonSuperuser /\ Present(view.sidebar)) =>
    LET paths == Paths(view.sidebar[1])
    IN /\ paths = DashboardPath \o RoleSetPaths(user[1].role) \o ProfilePath
       /\ user[1].role = "finance" =>
            (~InSeq("/requests/create", paths) /\ ~InSeq("/admin/users", paths))

\* C18: for an identity with is_superuser false and a known role the menu is
\* the Dashboard entry followed by exactly the contribution set of that role
\* (one set for both approver levels), in the Sidebar followed by Profile;
\* for 'finance' it is Dashboard, Approved Requests, All Requests and holds
\* neither Create Request nor Users.
C18_NonSuperuserMenu == HeaderMenuOfRole /\ SidebarMenuOfRole

\* The same identity with the other spelling of its approver role.
OtherSpelling(u) ==
  LET role == u[1].role
      other == CASE role = "approver_level_1" -> "approver-level-1"
                 [] role = "approver_level_2" -> "approver-level-2"
                 [] role = "approver-level-1" -> "approver_level_1"
                 [] role = "approver-level-2" -> "approver_level_2"
  IN Some([u[1] EXCEPT !.role = other])

IsApprover == Present(user) /\ user[1].role \in ApproverSpellings

HeaderSpellingSynonym ==
  (IsApprover /\ Present(view.header)) =>
    view.header[1] = HeaderMenuItems(OtherSpelling(user), loading)

SidebarSpellingSynonym ==
  (IsApprover /\ Present(view.sidebar)) =>
    view.sidebar[1] = SidebarMenuItems(OtherSpelling(user))

DetailSpellingSynonym ==
  (IsApprover /\ Present(view.detail)) =>
    /\ view.detail[1].canApprove =
         canApprove(view.detail[1].status, OtherSpelling(user))
    /\ view.detail[1].backPath = getBackPath(OtherSpelling(user))

\* C19: an identity with role 'approver_level_N' and the same identity with
\* role 'approver-level-N' (N = 1, 2, any is_superuser) get the same Header
\* menu, the same Sidebar menu, the same canApprove and the same
\* back-navigation path.
C19_ApproverSpellingsAreSynonyms ==
  HeaderSpellingSynonym /\ SidebarSpellingSynonym /\ DetailSpellingSynonym

WithoutTrailingProfile(paths) ==
  IF paths # <<>> /\ paths[Len(paths)] = "/profile"
    THEN SubSeq(paths, 1, Len(paths) - 1)
    ELSE paths

\* C20: for every identity (role, is_superuser) the Header menu and the
\* Sidebar menu are the same ordered list of paths once the trailing Profile
\* entry of the Sidebar is left out.
C20_HeaderAndSidebarAgree ==
  (Present(user) /\ Present(view.header) /\ Present(view.sidebar)) =>
    Paths(view.header[1]) = WithoutTrailingProfile(Paths(view.sidebar[1]))

\* C21: when a request that was not retried yet receives a 401 and no
\* refresh_token is stored, the refresh endpoint is not called, the request
\* is not re-issued, the three keys are removed, the browser is redirected
\* to /login and the caller's promise rejects with that 401.
C21_NoRefreshTokenTearsDown ==
  [][\A r \in ReqIds :
       (Respond(r, "401", NoData) /\ ~reqs[r].retry
          /\ ~Present(storage.refresh_token)) =>
         /\ reqs'[r] = IdleReq
         /\ last'.req.id = r
         /\ last'.req.refreshes = 0
         /\ last'.req.sends = 1
         /\ AllAbsent(storage')
         /\ navPending'
         /\ last'.req.outcome = "rejected"
         /\ last'.req.cause = 1
         /\ last'.req.resps = <<"401">>]_vars

C21_Witness ==
  /\ last.op = "response"
  /\ last.teardown
  /\ last.req.kind = "data"
  /\ last.req.resps = <<"401">>
  /\ last.req.refreshes = 0
  /\ last.req.outcome = "rejected"
  /\ navPending
  /\ AllAbsent(storage)

C23_ConcurrentRefreshesIndependent ==
  /\ [][\A r \in ReqIds :
          (Respond(r, "401", NoData) /\ ~reqs[r].retry
             /\ Present(storage.refresh_token)) =>
            /\ reqs'[r].stage = "refreshing"
            /\ reqs'[r].refreshes = 1
            /\ \A o \in ReqIds \ {r} : reqs'[o] = reqs[o]]_vars
  /\ [][\A r \in ReqIds :
          AnyRefreshResponse(r) =>
            /\ reqs'[r].stage \in {"sent", "idle"}
            /\ reqs'[r].stage = "sent" => reqs'[r].sends = 2
            /\ \A o \in ReqIds \ {r} : reqs'[o] = reqs[o]]_vars
  /\ [](\A q \in Known : q.refreshes <= 1 /\ q.sends <= 1 + q.refreshes)
  /\ \A r \in ReqIds : (reqs[r].stage # "idle") ~> (reqs[r].stage = "idle")

C23_Witness ==
  \E r, o \in ReqIds :
    /\ r # o
    /\ reqs[r].kind = "data" /\ reqs[o].kind = "data"
    /\ reqs[r].refreshResult = "ok" /\ reqs[r].stage = "sent"
    /\ reqs[o].stage = "refreshing"
    /\ last.op = "refreshOk"

\* The entries of seq whose value did not occur earlier in seq, in order.
RECURSIVE FirstSeen(_)
FirstSeen(seq) ==
  IF seq = <<>> THEN <<>>
  ELSE LET front == SubSeq(seq, 1, Len(seq) - 1)
           x == seq[Len(seq)]
       IN IF InSeq(x, front) THEN FirstSeen(front)
          ELSE Append(FirstSeen(front), x)

HeaderMenuDeduplicated ==
  (Present(user) /\ Present(view.header)) =>
    LET paths == Paths(view.header[1])
        assembled == Paths(HeaderAllMenuItems(RoleOrStaff(user), IsSuperuser(user)))
    IN NoRepeat(paths) /\ paths = FirstSeen(assembled)

SidebarMenuDeduplicated ==
  (Present(user) /\ Present(view.sidebar)) => NoRepeat(Paths(view.sidebar[1]))

\* C24: no resolved menu, of the Header or of the Sidebar, for any role and
\* is_superuser value, holds two entries with the same path; of entries with
\* the same path the first in assembly order survives, and the survivors
\* keep their first-seen order.
C24_MenusDeduplicated == HeaderMenuDeduplicated /\ SidebarMenuDeduplicated

\* C25: whenever the session is loading, or there is no identity, the menu
\* resolvers of the Header and of the Sidebar return the empty list.
C25_NoPrematureMenu ==
  (loading \/ ~Present(user)) =>
    /\ Present(view.header) => view.header[1] = <<>>
    /\ Present(view.sidebar) => view.sidebar[1] = <<>>

\* C26: for an identity with is_superuser false whose role is outside the
\* known roles (an unknown string, or null) the Header menu is the base entry
\* plus the staff set.
C26_UnknownRoleFallsBackToStaff ==
  (Present(user) /\ ~IsSuperuser(user) /\ user[1].role \notin KnownRoles
     /\ Present(view.header)) =>
    Paths(view.header[1]) = DashboardPath \o StaffSetPaths

C29_RouteTableUnrestricted ==
  Present(view.route) =>
    /\ RouteAllowedRoles(view.route[1].path) = Absent
    /\ view.route[1].outcome # "/dashboard"
    /\ (~loading /\ isAuthenticated) => view.route[1].outcome = "children"

C29_Witness ==
  /\ ~loading
  /\ isAuthenticated
  /\ user[1].role = "staff"
  /\ ~IsSuperuser(user)
  /\ Present(view.route)
  /\ view.route[1].path = "/admin/users"
  /\ view.route[1].outcome = "children"
  /\ Present(view.header)
  /\ ~InSeq("/admin/users", Paths(view.header[1]))

\* C30: for one open ApprovalModal the submit button is disabled from the
\* start of a submission until its response arrives and stays disabled
\* after a success, so at most one call is in flight and no call is made
\* after a successful one; after a failed call the button is enabled again
\* and the error is shown; each successful call schedules onSuccess once.
C30_ApprovalModalSingleFlight ==
  /\ [](Modal.inFlight <= 1)
  /\ [](Modal.inFlight = 1 => SubmitDisabled(Modal))
  /\ [](Modal.success => SubmitDisabled(Modal))
  /\ [][Modal.success => (Modal'.success /\ Modal'.calls = Modal.calls)]_vars
  /\ [][\A error \in CallErrors :
          (CallFails(error) /\ Modal.open) =>
            /\ ~SubmitDisabled(Modal')
            /\ Truthy(Modal'.error)
            /\ Modal'.scheduled = Modal.scheduled]_vars
  /\ [][CallSucceeds => Modal'.scheduled = Modal.scheduled + 1]_vars
  /\ [](Modal.scheduled = Modal.succeeded /\ Modal.succeeded <= 1
          /\ Modal.onSuccessCalls <= Modal.scheduled)

C30_Witness ==
  /\ Modal.calls = 2
  /\ Modal.success
  /\ Modal.scheduled = 1
  /\ Modal.onSuccessCalls = 1
  /\ Modal.inFlight = 0
  /\ ~Modal.open

====
